---- MODULE Spec2Model ----
(***************************************************************************)
(* Model of src/main.py: a Streamlit page that forwards one uploaded PDF   *)
(* to a webhook.  The script is executed top to bottom on every run; the   *)
(* session state (st.session_state) and the widget values survive from one *)
(* run to the next.  A run is started by a user event on a control of the  *)
(* page or by st.rerun(), which abandons the current run and starts the    *)
(* next one.  The outbound call blocks the run: no user event is taken     *)
(* while a run is executing (pc # "rest").                                 *)
(***************************************************************************)
EXTENDS Integers, Sequences, FiniteSets, TLC

VARIABLES
    processing,      \* st.session_state.processing
    upload_success,  \* st.session_state.upload_success
    file_processed,  \* st.session_state.file_processed
    uploaded_file,   \* st.session_state.uploaded_file, NoFile when the key is absent
    file_uploader,   \* value of the widget with key "file_uploader"
    clicked,         \* the button whose click started the pending run
    pc,              \* "rest", "run", "sending" or "returned"
    page,            \* the elements the current (or the last completed) run has rendered
    error_text,      \* the text given to st.error at line 140
    attempt,         \* what happened to the outbound call (pc = "returned")
    result,          \* the dict process_document returned (pc = "returned")
    sent_file,       \* the argument of the call to process_document in flight
    in_flight,       \* calls to process_document started and not yet returned
    calls,           \* calls to process_document started so far
    clicks,          \* clicks on "Upload & Process" so far
    calls_since_click, \* calls to process_document started since the last such click
    last_failed      \* the file of the most recent failed call, NoFile when none

vars == <<processing, upload_success, file_processed, uploaded_file, file_uploader,
          clicked, pc, page, error_text, attempt, result, sent_file, in_flight,
          calls, clicks, calls_since_click, last_failed>>

flags == <<processing, upload_success, file_processed, uploaded_file>>

history == <<calls, clicks, calls_since_click, last_failed>>

-----------------------------------------------------------------------------
(* Bounds *)

MaxClicks == 3

MaxExcess == 1

-----------------------------------------------------------------------------
(* Constants of the program *)

MAX_FILE_SIZE_MB == 10

BytesPerMb == 1024 * 1024

NoFile == -1

\* An uploaded file is modelled by its size in bytes (UploadedFile.size).
Files == {0} \cup ((MAX_FILE_SIZE_MB * BytesPerMb - MaxExcess) ..
                   (MAX_FILE_SIZE_MB * BytesPerMb + MaxExcess))

NoResult == [none |-> TRUE]

NoAttempt == [kind |-> "none"]

StatusCodes == {200, 201, 500}

Texts == {"", "boom"}

ExceptionClasses == {"ReadTimeout", "ConnectTimeout", "ConnectionError", "Exception"}

\* What can happen to one call of process_document: a response with a status
\* code and a body, or an exception of some class with some text.
Attempts ==
    [kind : {"response"}, status : StatusCodes, text : Texts]
    \cup [kind : {"exception"}, exc : ExceptionClasses, text : Texts]

-----------------------------------------------------------------------------
(* process_document *)

TimeoutMessage == "The request timed out. The file might be processing in the background."

ConnectionMessage == "Connection error. Check your internet/server."

\* isinstance(e, requests.exceptions.Timeout)
IsTimeout(exc) == exc \in {"ReadTimeout", "ConnectTimeout"}

\* isinstance(e, requests.exceptions.ConnectionError)
IsConnectionError(exc) == exc \in {"ConnectTimeout", "ConnectionError"}

ServerMessage(status, text) ==
    "Server returned " \o ToString(status) \o ": " \o text

AcceptsAnyStatus(a) ==
    IF a.kind = "response"
    THEN [success |-> TRUE]
    ELSE IF IsTimeout(a.exc)
         THEN [success |-> FALSE, error |-> TimeoutMessage]
         ELSE IF IsConnectionError(a.exc)
              THEN [success |-> FALSE, error |-> ConnectionMessage]
              ELSE [success |-> FALSE, error |-> a.text]

ConnectionErrorFirst(a) ==
    IF a.kind = "response"
    THEN IF a.status = 200
         THEN [success |-> TRUE]
         ELSE [success |-> FALSE, error |-> ServerMessage(a.status, a.text)]
    ELSE IF IsConnectionError(a.exc)
         THEN [success |-> FALSE, error |-> ConnectionMessage]
         ELSE IF IsTimeout(a.exc)
              THEN [success |-> FALSE, error |-> TimeoutMessage]
              ELSE [success |-> FALSE, error |-> a.text]

process_document(a) ==
    IF a.kind = "response"
    THEN IF a.status = 200
         THEN [success |-> TRUE]
         ELSE [success |-> FALSE, error |-> ServerMessage(a.status, a.text)]
    ELSE IF IsTimeout(a.exc)
         THEN [success |-> FALSE, error |-> TimeoutMessage]
         ELSE IF IsConnectionError(a.exc)
              THEN [success |-> FALSE, error |-> ConnectionMessage]
              ELSE [success |-> FALSE, error |-> a.text]

-----------------------------------------------------------------------------
(* The sections of the script *)

\* file_size_mb > MAX_FILE_SIZE_MB, with file_size_mb = size / (1024 * 1024):
\* the division of an integer below 2^53 by 2^20 is exact in a double, so the
\* comparison is the comparison of the byte counts.
NeverTooLarge(size) == FALSE

LimitIsTooLarge(size) == size >= MAX_FILE_SIZE_MB * BytesPerMb

TooLarge(size) == size > MAX_FILE_SIZE_MB * BytesPerMb

ShowUploadIgnoresSuccess == ~processing

\* Line 86: the upload section is rendered.
ShowUpload == ~upload_success /\ ~processing

\* Line 97.
button_disabled == processing \/ file_processed

\* Lines 87-105, 111-113: what the upload section renders.
UploadRender ==
    IF ~ShowUpload THEN {}
    ELSE {"uploader"} \cup
         (IF file_uploader = NoFile THEN {}
          ELSE IF TooLarge(file_uploader) THEN {"size_error"}
          ELSE IF button_disabled THEN {"submit_disabled", "in_progress_info"}
          ELSE {"submit"})

\* Lines 99-105: st.button returns True in the run its click started.
SubmitPressed ==
    /\ ShowUpload
    /\ file_uploader # NoFile
    /\ ~TooLarge(file_uploader)
    /\ ~button_disabled
    /\ clicked = "process_button"

GuardIgnoresFlags == uploaded_file # NoFile

GuardInverted == processing /\ uploaded_file # NoFile /\ file_processed

\* Lines 118-120.
ProcessingGuard == processing /\ uploaded_file # NoFile /\ ~file_processed

\* Lines 147-163: what the success screen renders, given upload_success.
SuccessRender(success) == IF success THEN {"success", "another"} ELSE {}

\* A widget that a completed run has not rendered loses its value.
Cull(rendered, value) == IF "uploader" \in rendered THEN value ELSE NoFile

-----------------------------------------------------------------------------
(* State initialization, lines 18-23; no file chosen, first page shown *)

Init ==
    /\ processing = FALSE
    /\ upload_success = FALSE
    /\ file_processed = FALSE
    /\ uploaded_file = NoFile
    /\ file_uploader = NoFile
    /\ clicked = "none"
    /\ pc = "rest"
    /\ page = {"uploader"}
    /\ error_text = ""
    /\ attempt = NoAttempt
    /\ result = NoResult
    /\ sent_file = NoFile
    /\ in_flight = 0
    /\ calls = 0
    /\ clicks = 0
    /\ calls_since_click = 0
    /\ last_failed = NoFile

-----------------------------------------------------------------------------
(* User events, taken when no run is executing *)

\* The user chooses, replaces or removes the file in the uploader.
SelectFile(f) ==
    /\ pc = "rest"
    /\ "uploader" \in page
    /\ f # file_uploader
    /\ file_uploader' = f
    /\ clicked' = "none"
    /\ pc' = "run"
    /\ UNCHANGED <<flags, page, error_text, attempt, result, sent_file, in_flight, history>>

\* The user clicks "Upload & Process".
ClickSubmit ==
    /\ pc = "rest"
    /\ "submit" \in page
    /\ clicks < MaxClicks
    /\ clicked' = "process_button"
    /\ clicks' = clicks + 1
    /\ calls_since_click' = 0
    /\ pc' = "run"
    /\ UNCHANGED <<flags, file_uploader, page, error_text, attempt, result, sent_file,
                   in_flight, calls, last_failed>>

\* The user clicks "Process Another File".
ClickAnother ==
    /\ pc = "rest"
    /\ "another" \in page
    /\ clicked' = "another"
    /\ pc' = "run"
    /\ UNCHANGED <<flags, file_uploader, page, error_text, attempt, result, sent_file,
                   in_flight, history>>

\* The user reruns the script (the "Rerun" command of the page).
Rerun ==
    /\ pc = "rest"
    /\ clicked' = "none"
    /\ pc' = "run"
    /\ UNCHANGED <<flags, file_uploader, page, error_text, attempt, result, sent_file,
                   in_flight, history>>

-----------------------------------------------------------------------------
(* One run of the script, lines 86-164 *)

\* Lines 106-109: the handler of the submit button, ending in st.rerun().
RunSubmit ==
    /\ pc = "run"
    /\ SubmitPressed
    /\ processing' = TRUE
    /\ uploaded_file' = file_uploader
    /\ file_processed' = FALSE
    /\ clicked' = "none"
    /\ page' = UploadRender
    /\ pc' = "run"
    /\ UNCHANGED <<upload_success, file_uploader, error_text, attempt, result, sent_file,
                   in_flight, history>>

StartProcessingDetached ==
    /\ pc = "run"
    /\ ~SubmitPressed
    /\ ProcessingGuard
    /\ calls < MaxClicks + 1
    /\ sent_file' = uploaded_file
    /\ in_flight' = in_flight + 1
    /\ calls' = calls + 1
    /\ calls_since_click' = calls_since_click + 1
    /\ page' = UploadRender \cup {"status"}
    /\ clicked' = "none"
    /\ pc' = "rest"
    /\ UNCHANGED <<flags, file_uploader, error_text, attempt, result, clicks, last_failed>>

\* Lines 118-125: the guard holds and process_document is called; the run
\* blocks in requests.post.
StartProcessing ==
    /\ pc = "run"
    /\ ~SubmitPressed
    /\ ProcessingGuard
    /\ calls < MaxClicks + 1
    /\ sent_file' = uploaded_file
    /\ in_flight' = in_flight + 1
    /\ calls' = calls + 1
    /\ calls_since_click' = calls_since_click + 1
    /\ page' = UploadRender \cup {"status"}
    /\ pc' = "sending"
    /\ UNCHANGED <<flags, file_uploader, clicked, error_text, attempt, result, clicks,
                   last_failed>>

ReturnsWithoutMark(a) ==
    /\ pc = "sending"
    /\ attempt' = a
    /\ result' = process_document(a)
    /\ in_flight' = in_flight - 1
    /\ file_processed' = file_processed
    /\ pc' = "returned"
    /\ UNCHANGED <<processing, upload_success, uploaded_file, file_uploader, clicked, page,
                   error_text, sent_file, history>>

\* Lines 125-128: process_document returns its dict and the file is marked as
\* processed.
ProcessDocumentReturns(a) ==
    /\ pc = "sending"
    /\ attempt' = a
    /\ result' = process_document(a)
    /\ in_flight' = in_flight - 1
    /\ file_processed' = TRUE
    /\ pc' = "returned"
    /\ UNCHANGED <<processing, upload_success, uploaded_file, file_uploader, clicked, page,
                   error_text, sent_file, history>>

SuccessKeepsProcessing ==
    /\ pc = "returned"
    /\ result.success
    /\ upload_success' = TRUE
    /\ processing' = processing
    /\ attempt' = NoAttempt
    /\ result' = NoResult
    /\ sent_file' = NoFile
    /\ page' = page \cup {"accepted"}
    /\ pc' = "run"
    /\ UNCHANGED <<file_processed, uploaded_file, file_uploader, clicked, error_text,
                   in_flight, history>>

\* Lines 130-137: the success branch, ending in st.rerun().
HandleSuccess ==
    /\ pc = "returned"
    /\ result.success
    /\ upload_success' = TRUE
    /\ processing' = FALSE
    /\ attempt' = NoAttempt
    /\ result' = NoResult
    /\ sent_file' = NoFile
    /\ page' = page \cup {"accepted"}
    /\ pc' = "run"
    /\ UNCHANGED <<file_processed, uploaded_file, file_uploader, clicked, error_text,
                   in_flight, history>>

FailureKeepsProcessing ==
    /\ pc = "returned"
    /\ ~result.success
    /\ error_text' = result.error
    /\ processing' = processing
    /\ file_processed' = FALSE
    /\ attempt' = NoAttempt
    /\ result' = NoResult
    /\ last_failed' = sent_file
    /\ sent_file' = NoFile
    /\ page' = page \cup {"status_error"} \cup SuccessRender(upload_success)
    /\ file_uploader' = Cull(page', file_uploader)
    /\ clicked' = "none"
    /\ pc' = "rest"
    /\ UNCHANGED <<upload_success, uploaded_file, in_flight, calls, clicks, calls_since_click>>

FailureKeepsGuard ==
    /\ pc = "returned"
    /\ ~result.success
    /\ error_text' = result.error
    /\ processing' = FALSE
    /\ file_processed' = file_processed
    /\ attempt' = NoAttempt
    /\ result' = NoResult
    /\ last_failed' = sent_file
    /\ sent_file' = NoFile
    /\ page' = page \cup {"status_error"} \cup SuccessRender(upload_success)
    /\ file_uploader' = Cull(page', file_uploader)
    /\ clicked' = "none"
    /\ pc' = "rest"
    /\ UNCHANGED <<upload_success, uploaded_file, in_flight, calls, clicks, calls_since_click>>

\* Lines 138-142, then 147-168: the failure branch; the run goes on to its end.
HandleFailure ==
    /\ pc = "returned"
    /\ ~result.success
    /\ error_text' = result.error
    /\ processing' = FALSE
    /\ file_processed' = FALSE
    /\ attempt' = NoAttempt
    /\ result' = NoResult
    /\ last_failed' = sent_file
    /\ sent_file' = NoFile
    /\ page' = page \cup {"status_error"} \cup SuccessRender(upload_success)
    /\ file_uploader' = Cull(page', file_uploader)
    /\ clicked' = "none"
    /\ pc' = "rest"
    /\ UNCHANGED <<upload_success, uploaded_file, in_flight, calls, clicks, calls_since_click>>

ResetKeepsFile ==
    /\ pc = "run"
    /\ ~SubmitPressed
    /\ ~ProcessingGuard
    /\ upload_success
    /\ clicked = "another"
    /\ processing' = FALSE
    /\ upload_success' = FALSE
    /\ file_processed' = FALSE
    /\ uploaded_file' = uploaded_file
    /\ clicked' = "none"
    /\ page' = UploadRender \cup SuccessRender(upload_success)
    /\ pc' = "run"
    /\ UNCHANGED <<file_uploader, error_text, attempt, result, sent_file, in_flight, history>>

\* Lines 50-57, called at line 164: reset_app, ending in st.rerun().
reset_app ==
    /\ pc = "run"
    /\ ~SubmitPressed
    /\ ~ProcessingGuard
    /\ upload_success
    /\ clicked = "another"
    /\ processing' = FALSE
    /\ upload_success' = FALSE
    /\ file_processed' = FALSE
    /\ uploaded_file' = NoFile
    /\ clicked' = "none"
    /\ page' = UploadRender \cup SuccessRender(upload_success)
    /\ pc' = "run"
    /\ UNCHANGED <<file_uploader, error_text, attempt, result, sent_file, in_flight, history>>

RunToEndStoresFile ==
    /\ pc = "run"
    /\ ~SubmitPressed
    /\ ~ProcessingGuard
    /\ ~(upload_success /\ clicked = "another")
    /\ page' = UploadRender \cup SuccessRender(upload_success)
    /\ file_uploader' = Cull(page', file_uploader)
    /\ uploaded_file' = IF ShowUpload /\ file_uploader # NoFile
                        THEN file_uploader ELSE uploaded_file
    /\ clicked' = "none"
    /\ pc' = "rest"
    /\ UNCHANGED <<processing, upload_success, file_processed, error_text, attempt, result,
                   sent_file, in_flight, history>>

\* The run reaches the footer (line 168) without a state change: the page it
\* rendered is shown and the widgets it did not render lose their values.
RunToEnd ==
    /\ pc = "run"
    /\ ~SubmitPressed
    /\ ~ProcessingGuard
    /\ ~(upload_success /\ clicked = "another")
    /\ page' = UploadRender \cup SuccessRender(upload_success)
    /\ file_uploader' = Cull(page', file_uploader)
    /\ clicked' = "none"
    /\ pc' = "rest"
    /\ UNCHANGED <<flags, error_text, attempt, result, sent_file, in_flight, history>>

-----------------------------------------------------------------------------

Next ==
    \/ \E f \in Files \cup {NoFile} : SelectFile(f)
    \/ ClickSubmit
    \/ ClickAnother
    \/ Rerun
    \/ RunSubmit
    \/ StartProcessing
    \/ \E a \in Attempts : ProcessDocumentReturns(a)
    \/ HandleSuccess
    \/ HandleFailure
    \/ reset_app
    \/ RunToEnd

Spec == Init /\ [][Next]_vars

TypeOK ==
    /\ processing \in BOOLEAN
    /\ upload_success \in BOOLEAN
    /\ file_processed \in BOOLEAN
    /\ uploaded_file \in Files \cup {NoFile}
    /\ file_uploader \in Files \cup {NoFile}
    /\ clicked \in {"none", "process_button", "another"}
    /\ pc \in {"rest", "run", "sending", "returned"}
    /\ in_flight \in 0..1
    /\ calls \in 0..(MaxClicks + 1)
    /\ clicks \in 0..MaxClicks

-----------------------------------------------------------------------------
(* Properties *)

LimitBytes == MAX_FILE_SIZE_MB * 1024 * 1024

\* C1: process_document is never called with a file above the size limit; an
\* oversized file in the uploader is shown the size error and no submit button.
C1_NoOversizedCall ==
    /\ pc = "sending" => (sent_file # NoFile /\ sent_file <= LimitBytes)
    /\ (pc = "rest" /\ file_uploader # NoFile /\ file_uploader > LimitBytes)
          => ("size_error" \in page /\ "submit" \notin page)

C1_Witness ==
    /\ pc = "rest"
    /\ file_uploader > LimitBytes
    /\ "size_error" \in page
    /\ calls > 0

\* C2: a successful submission has made exactly one call since its click, and
\* while the success state lasts no call is in flight and none is added.
C2_OneCallPerSubmission ==
    /\ upload_success => (calls_since_click = 1 /\ in_flight = 0)
    /\ pc \in {"sending", "returned"} => calls_since_click = 1

C2_Witness ==
    /\ upload_success
    /\ pc = "rest"
    /\ calls >= 2
    /\ calls_since_click = 1

\* C3: the step that handles the returned result ends in the success state
\* exactly when the call got status 200, and in the failure state for every
\* other status and every exception.
C3_StatusDecidesState ==
    [][pc = "returned" =>
          IF attempt.kind = "response" /\ attempt.status = 200
          THEN upload_success' /\ ~processing'
          ELSE ~upload_success' /\ ~processing']_vars

C3_Witness ==
    /\ pc = "rest"
    /\ "status_error" \in page
    /\ error_text = "Server returned 201: "
    /\ ~upload_success
    /\ ~processing

\* C4: every failure result carries a non-empty error message, and the message
\* shown with the failure state is never empty.
C4_ErrorNeverEmpty ==
    /\ (pc = "returned" /\ ~result.success) => result.error # ""
    /\ (pc = "rest" /\ "status_error" \in page) => error_text # ""

\* C5: after a failed call the three flags are False, and once the failed file
\* is in the uploader again the enabled submit button is offered for it.
C5_FailureAllowsRetry ==
    /\ (pc = "rest" /\ "status_error" \in page)
          => (~processing /\ ~file_processed /\ ~upload_success)
    /\ (pc = "rest" /\ "uploader" \in page /\ last_failed # NoFile
           /\ file_uploader = last_failed)
          => "submit" \in page

C5_Witness ==
    /\ pc = "sending"
    /\ last_failed # NoFile
    /\ sent_file = last_failed
    /\ calls >= 2

\* C6: the step that leaves the success state (reset_app) leaves the session
\* with the values of a fresh session: three flags False, no uploaded_file.
C6_ResetRestoresInitial ==
    [][(upload_success /\ ~upload_success') =>
          (/\ processing' = FALSE
           /\ upload_success' = FALSE
           /\ file_processed' = FALSE
           /\ uploaded_file' = NoFile)]_vars

C6_Witness ==
    /\ calls > 0
    /\ ~processing
    /\ ~upload_success
    /\ ~file_processed
    /\ uploaded_file = NoFile

\* C7 (as stated): file_processed is already True while the call is in flight,
\* and is True only for a file that passed the size check.
C7_GuardSetBeforeCall ==
    /\ pc = "sending" => file_processed
    /\ file_processed => (uploaded_file # NoFile /\ uploaded_file <= LimitBytes)

\* C7 (amended): file_processed is still False while the call is in flight, it
\* is True as soon as process_document has returned, and it is True only for a
\* file that passed the size check.
C7_GuardSetAfterCall ==
    /\ pc = "sending" => ~file_processed
    /\ pc = "returned" => file_processed
    /\ file_processed => (uploaded_file # NoFile /\ uploaded_file <= LimitBytes)

C7_Witness ==
    /\ pc = "returned"
    /\ file_processed
    /\ uploaded_file = LimitBytes

Phase ==
    IF upload_success THEN "Success"
    ELSE IF processing THEN "Uploading"
    ELSE IF "status_error" \in page THEN "Failed"
    ELSE "Idle"

AllowedTransitions ==
    { <<"Idle", "Uploading">>, <<"Uploading", "Success">>, <<"Uploading", "Failed">>,
      <<"Failed", "Idle">>, <<"Success", "Idle">> }

\* C9: in the success state every step but reset_app leaves the flags and the
\* number of calls unchanged, the page shown has no upload form, and the
\* session moves between states only along the listed transitions, leaving
\* Success only by the click on "Process Another File".
C9_SuccessTerminalUntilReset ==
    /\ [](upload_success /\ pc = "rest" => page = {"success", "another"})
    /\ [][(upload_success /\ ~(pc = "run" /\ clicked = "another"))
             => (UNCHANGED flags /\ calls' = calls /\ pc' # "sending")]_vars
    /\ [][Phase' # Phase => <<Phase, Phase'>> \in AllowedTransitions]_vars
    /\ [][(Phase = "Success" /\ Phase' # "Success") => clicked = "another"]_vars

C9_Witness ==
    /\ upload_success
    /\ pc = "rest"
    /\ page = {"success", "another"}
    /\ clicks >= 2
    /\ last_failed # NoFile

\* C10: there are never more calls than submit clicks, and never more than one
\* call since the last submit click.
C10_NoAutomaticRetry ==
    /\ calls <= clicks
    /\ calls_since_click <= 1

C10_Witness ==
    /\ pc = "rest"
    /\ "uploader" \in page
    /\ last_failed # NoFile
    /\ calls = 1
    /\ clicks = 1

\* C11: after every completed script run the page holds at least one control
\* with which the user can continue (the file uploader, the submit button or
\* "Process Another File"); in particular the run that reports a failure
\* shows the file uploader.
C11_ControlAfterEveryRun ==
    /\ pc = "rest" => page \cap {"uploader", "submit", "another"} # {}
    /\ (pc = "rest" /\ "status_error" \in page) => "uploader" \in page

\* The steps of a script run, as opposed to the events of the user.
ScriptStep ==
    \/ RunSubmit
    \/ StartProcessing
    \/ \E a \in Attempts : ProcessDocumentReturns(a)
    \/ HandleSuccess
    \/ HandleFailure
    \/ reset_app
    \/ RunToEnd

\* A started script run proceeds, and requests.post returns or raises (it is
\* given timeout=240); the user is under no obligation to act.
FairSpec == Init /\ [][Next]_vars /\ WF_vars(ScriptStep)

\* C12: whenever processing is True, the session eventually has processing
\* False and is in the success state or shows the failure.
C12_UploadingNeverRests ==
    processing ~> (~processing /\ (upload_success \/ "status_error" \in page))

C12_Witness ==
    /\ pc = "rest"
    /\ ~processing
    /\ "status_error" \in page
    /\ error_text = TimeoutMessage
    /\ calls = 2

\* C13: the dict process_document returns is decided by the attempt alone:
\* status 200 gives success without an error key; another status gives
\* "Server returned <status>: <body>"; a timeout, also one that is a connection
\* error as well, gives the timeout message; a connection error that is no
\* timeout gives the connection message; any other exception gives its own
\* text; every attempt gives a dict, with an error key exactly on failure.
C13_OneOutcomePerAttempt ==
    pc = "returned" =>
        /\ "success" \in DOMAIN result
        /\ ("error" \in DOMAIN result) <=> ~result.success
        /\ result.success <=> (attempt.kind = "response" /\ attempt.status = 200)
        /\ (attempt.kind = "response" /\ attempt.status # 200) =>
              result.error = "Server returned " \o ToString(attempt.status)
                                 \o ": " \o attempt.text
        /\ (attempt.kind = "exception" /\ attempt.exc \in {"ReadTimeout", "ConnectTimeout"}) =>
              result.error =
                 "The request timed out. The file might be processing in the background."
        /\ (attempt.kind = "exception" /\ attempt.exc = "ConnectionError") =>
              result.error = "Connection error. Check your internet/server."
        /\ (attempt.kind = "exception" /\ attempt.exc = "Exception") =>
              result.error = attempt.text

C13_Witness ==
    /\ pc = "returned"
    /\ attempt.kind = "exception"
    /\ attempt.exc = "ConnectTimeout"
    /\ result.error = TimeoutMessage
    /\ ~result.success

\* C14: the session flags and uploaded_file change only in the handler of the
\* submit click, in the processing step and in reset_app; the events of the
\* user and every other run (a file selected, an oversized file rejected, a
\* rerun of the Idle or Success page) leave them unchanged, and while the
\* call is in flight nothing but the mark of line 128 is written.
C14_FlagsChangeOnlyInHandlers ==
    /\ [][flags' # flags =>
             \/ (pc = "run" /\ clicked = "process_button")
             \/ pc \in {"sending", "returned"}
             \/ (pc = "run" /\ clicked = "another" /\ upload_success)]_vars
    /\ [][pc = "rest" => UNCHANGED flags]_vars
    /\ [][(pc = "run" /\ clicked = "none" /\ ~processing) => UNCHANGED flags]_vars
    /\ [][pc = "sending" =>
             UNCHANGED <<processing, upload_success, uploaded_file>>]_vars

C14_Witness ==
    /\ pc = "rest"
    /\ "size_error" \in page
    /\ uploaded_file # NoFile
    /\ uploaded_file # file_uploader
    /\ ~processing
    /\ ~upload_success
    /\ ~file_processed

\* C15: with a file in the uploader of the shown page, the size error is shown
\* exactly when the file has more than 10 * 1024 * 1024 bytes, and the submit
\* button is offered exactly when it has at most that many, the empty file
\* and the file of exactly the limit included.
C15_RejectsOnlyAboveLimit ==
    (pc = "rest" /\ "uploader" \in page /\ file_uploader # NoFile) =>
        /\ "size_error" \in page <=> file_uploader > 10 * 1024 * 1024
        /\ "submit" \in page <=> file_uploader <= 10 * 1024 * 1024
        /\ file_uploader \in {0, 10485760} => "submit" \in page

C15_Witness ==
    /\ pc = "sending"
    /\ sent_file = 10485760
    /\ last_failed = 0

====
